---- MODULE Spec2Model ----
(***************************************************************************)
(* IoTUDPServer (udp-server.py): the line-protocol parser parse_packet,    *)
(* the per-device packet_buffer and the receive loop of start().           *)
(*                                                                         *)
(* A text is a sequence of one-character strings; a datagram is a sequence *)
(* of bytes, each written as the character it encodes, with BadByte for a  *)
(* byte that is not valid UTF-8.                                           *)
(***************************************************************************)
EXTENDS Integers, Sequences, FiniteSets, TLC

(***************************************************************************)
(* Python str primitives used by parse_packet.                             *)
(***************************************************************************)

\* Python's None.
None == [None |-> TRUE]

\* A byte that cannot occur in valid UTF-8 (0xFF).
BadByte == "0xFF"

\* str.strip() removes these.
Whitespace == {" ", "\t"}

\* The literal 'sendVal'.
sendVal == <<"s", "e", "n", "d", "V", "a", "l">>

\* The literal 'NaN'.
NaN == <<"N", "a", "N">>

\* Utf8Decode with a fault: decode(errors='ignore') drops the bad bytes.
Utf8DecodeIgnore(packet_bytes) ==
    [raised |-> FALSE, str |-> SelectSeq(packet_bytes, LAMBDA b : b # BadByte)]

\* bytes.decode('utf-8'): the text, or UnicodeDecodeError.
Utf8Decode(packet_bytes) ==
    IF \E i \in 1..Len(packet_bytes) : packet_bytes[i] = BadByte
    THEN [raised |-> TRUE, str |-> <<>>]
    ELSE [raised |-> FALSE, str |-> packet_bytes]

\* str.find(sub) + 1: the first position of sub in s, 0 when absent.
Find(s, sub) ==
    LET hits == {i \in 1..(Len(s) - Len(sub) + 1) : SubSeq(s, i, i + Len(sub) - 1) = sub}
    IN  IF hits = {} THEN 0 ELSE CHOOSE i \in hits : \A j \in hits : i <= j

\* sub in s
Contains(s, sub) == Find(s, sub) # 0

\* s.split(sep) for a one-character separator: the list of parts.
\* SplitAt: the same, i being the first position of sep in s (0: none).
RECURSIVE Split(_, _), SplitAt(_, _, _)
SplitAt(s, sep, i) ==
    IF i = 0 THEN <<s>>
    ELSE <<SubSeq(s, 1, i - 1)>> \o Split(SubSeq(s, i + 1, Len(s)), sep)

Split(s, sep) == SplitAt(s, sep, Find(s, <<sep>>))

\* s.replace(old, new): every non-overlapping occurrence, left to right.
\* ReplaceAt: the same, i being the first position of old in s (0: none).
RECURSIVE Replace(_, _, _), ReplaceAt(_, _, _, _)
ReplaceAt(s, old, new, i) ==
    IF i = 0 THEN s
    ELSE SubSeq(s, 1, i - 1) \o new
         \o Replace(SubSeq(s, i + Len(old), Len(s)), old, new)

Replace(s, old, new) == ReplaceAt(s, old, new, Find(s, old))

\* s.strip()
Strip(s) ==
    LET keep == {i \in 1..Len(s) : s[i] \notin Whitespace}
    IN  IF keep = {} THEN <<>>
        ELSE LET lo == CHOOSE i \in keep : \A j \in keep : i <= j
                 hi == CHOOSE i \in keep : \A j \in keep : j <= i
             IN  SubSeq(s, lo, hi)

(***************************************************************************)
(* float(text).  A finite value is kept exactly, as Float("finite", m, e)  *)
(* for m * 10^e with m not divisible by 10 (0 is Float("finite", 0, 0)),   *)
(* so that "1.50", "1.5" and "15e-1" are the same number.  Digit-group     *)
(* underscores are not modelled; no input of the model contains one.       *)
(***************************************************************************)

Float(kind, m, e) == [float |-> <<kind, m, e>>]

DigitChars == {"0", "1", "2", "3", "4", "5", "6", "7", "8", "9"}

DigitVal(c) ==
    CASE c = "0" -> 0 [] c = "1" -> 1 [] c = "2" -> 2 [] c = "3" -> 3
      [] c = "4" -> 4 [] c = "5" -> 5 [] c = "6" -> 6 [] c = "7" -> 7
      [] c = "8" -> 8 [] c = "9" -> 9

IsDigits(s) == \A i \in 1..Len(s) : s[i] \in DigitChars

RECURSIVE DecimalValue(_)
DecimalValue(s) ==
    IF s = <<>> THEN 0
    ELSE 10 * DecimalValue(SubSeq(s, 1, Len(s) - 1)) + DigitVal(s[Len(s)])

\* Letters of the special values, lower-cased (float() ignores their case).
Lower(c) ==
    CASE c = "N" -> "n" [] c = "A" -> "a" [] c = "I" -> "i" [] c = "F" -> "f"
      [] c = "T" -> "t" [] c = "Y" -> "y" [] OTHER -> c

LowerText(s) == [i \in 1..Len(s) |-> Lower(s[i])]

RECURSIVE Normalize(_, _)
Normalize(m, e) ==
    IF m = 0 THEN Float("finite", 0, 0)
    ELSE IF m % 10 = 0 THEN Normalize(m \div 10, e + 1)
    ELSE Float("finite", m, e)

\* An optional sign in front of s: <<sign, rest>>.
Signed(s) ==
    IF s # <<>> /\ s[1] = "-" THEN <<-1, Tail(s)>>
    ELSE IF s # <<>> /\ s[1] = "+" THEN <<1, Tail(s)>>
    ELSE <<1, s>>

\* float(text) is ParseFloat(text); [raised |-> TRUE] is ValueError.  The
\* steps, innermost first:
\* the decimal mant (digits around the point at dot, 0: no point) with the
\* exponent esg = <<sign, digits>> when hasE;
DecimalAt(sign, mant, hasE, esg, dot) ==
    LET ipart == IF dot = 0 THEN mant ELSE SubSeq(mant, 1, dot - 1)
        fpart == IF dot = 0 THEN <<>> ELSE SubSeq(mant, dot + 1, Len(mant))
    IN  IF /\ IsDigits(ipart) /\ IsDigits(fpart) /\ Len(ipart) + Len(fpart) > 0
           /\ (hasE => (esg[2] # <<>> /\ IsDigits(esg[2])))
        THEN [raised |-> FALSE,
              value  |-> Normalize(sign * DecimalValue(ipart \o fpart),
                                   (IF hasE THEN esg[1] * DecimalValue(esg[2]) ELSE 0)
                                     - Len(fpart))]
        ELSE [raised |-> TRUE, value |-> None]

\* the unsigned text body with its exponent mark at ePos (0: no exponent);
DecimalExp(sign, body, ePos) ==
    IF ePos = 0
    THEN DecimalAt(sign, body, FALSE, <<1, <<>>>>, Find(body, <<".">>))
    ELSE DecimalAt(sign, SubSeq(body, 1, ePos - 1), TRUE,
                   Signed(SubSeq(body, ePos + 1, Len(body))),
                   Find(SubSeq(body, 1, ePos - 1), <<".">>))

\* the unsigned text body, low being body in lower case;
FloatOfBody(sign, body, low) ==
    IF low = <<"n", "a", "n">>
    THEN [raised |-> FALSE, value |-> Float("nan", 0, 0)]
    ELSE IF low = <<"i", "n", "f">> \/ low = <<"i", "n", "f", "i", "n", "i", "t", "y">>
    THEN [raised |-> FALSE, value |-> Float("inf", sign, 0)]
    ELSE DecimalExp(sign, body, Find(low, <<"e">>))

\* the trimmed text as <<sign, rest>>.
FloatOfSigned(sg) == FloatOfBody(sg[1], sg[2], LowerText(sg[2]))

ParseFloat(text) == FloatOfSigned(Signed(Strip(text)))

(***************************************************************************)
(* parse_packet                                                            *)
(***************************************************************************)

\* dict[k] = v
DictSet(d, k, v) == [x \in DOMAIN d \cup {k} |-> IF x = k THEN v ELSE d[x]]

\* Lines 80-83: the result f of float(value), stored, or dropped on ValueError.
StoreFloat(channel_data, channel_num, f) ==
    IF f.raised THEN channel_data ELSE DictSet(channel_data, channel_num, f.value)

\* Lines 76-83: one channel's value, stored, or dropped on ValueError.
ParseValue(channel_data, channel_num, value) ==
    IF Strip(value) = NaN
    THEN DictSet(channel_data, channel_num, None)
    ELSE StoreFloat(channel_data, channel_num, ParseFloat(value))

\* Line 75: channel.strip().split('='), unpacked into exactly two names.
SplitAssignment(channel) == Split(Strip(channel), "=")

\* Lines 73-83: the loop over channels_part.split(';'), from token i on.
\* raised: the unpacking of line 75 raised ValueError (outside the inner try).
\* ParseAssignment: token i, which has a '=', parts being its split.
RECURSIVE ParseChannels(_, _, _), ParseAssignment(_, _, _, _)
ParseAssignment(tokens, i, channel_data, parts) ==
    IF Len(parts) # 2
    THEN [raised |-> TRUE, channel_data |-> channel_data]
    ELSE ParseChannels(tokens, i + 1, ParseValue(channel_data, parts[1], parts[2]))

ParseChannels(tokens, i, channel_data) ==
    IF i > Len(tokens) THEN [raised |-> FALSE, channel_data |-> channel_data]
    ELSE IF ~Contains(tokens[i], <<"=">>)
    THEN ParseChannels(tokens, i + 1, channel_data)
    ELSE ParseAssignment(tokens, i, channel_data, SplitAssignment(tokens[i]))

\* Lines 70-71: channels_part, bound only when 'sendVal' is in content.
ChannelsPart(content) ==
    IF Contains(content, sendVal)
    THEN [bound |-> TRUE, text |-> Strip(Replace(content, sendVal, <<>>))]
    ELSE [bound |-> FALSE, text |-> <<>>]

\* Line 65, byLt being packet_str.split('<'): byLt[1].split('>')[0].
ContentOf(byLt) ==
    IF Len(byLt) < 2 THEN [raised |-> TRUE, text |-> <<>>]
    ELSE [raised |-> FALSE, text |-> Split(byLt[2], ">")[1]]

\* ContentOf with a fault: a text without '>' raises as well.
ContentOfStrict(byLt) ==
    IF Len(byLt) < 2 \/ Find(byLt[2], <<">">>) = 0
    THEN [raised |-> TRUE, text |-> <<>>]
    ELSE [raised |-> FALSE, text |-> Split(byLt[2], ">")[1]]

\* BracketedContent with a fault: a text without '>' raises as well.
BracketedContentStrict(packet_str) == ContentOfStrict(Split(packet_str, "<"))

\* Lines 64-65: packet_str.split('<')[1].split('>')[0]; IndexError when
\* there is no '<'.  A text without '>' is its own first part.
BracketedContent(packet_str) == ContentOf(Split(packet_str, "<"))

\* IsEndMarker with a fault: the 'not' is lost.
IsEndMarkerInverted(channels_part) == Strip(channels_part) # <<>>

\* Line 90: bool(not channels_part.strip())
IsEndMarker(channels_part) == Strip(channels_part) = <<>>

\* Line 66: packet_str.split('>')[-1], byGt being packet_str.split('>').
Checksum(byGt) == byGt[Len(byGt)]

\* parse_packet(packet_bytes) is the dict of lines 85-91, or None when any
\* statement of the try block raised (lines 93-95).  Its steps, last first:
\* lines 85-91, parsedChannels being the outcome of the loop of lines 73-83;
ParseResult(packet_str, channels_part, parsedChannels) ==
    IF parsedChannels.raised THEN None          \* ValueError, line 75
    ELSE IF ~channels_part.bound THEN None      \* UnboundLocalError, line 90
    ELSE [serial        |-> Split(packet_str, "<")[1],
          channel_data  |-> parsedChannels.channel_data,
          checksum      |-> Checksum(Split(packet_str, ">")),
          raw_packet    |-> packet_str,
          is_end_marker |-> IsEndMarker(channels_part.text)]

\* lines 72-83, channels_part being the outcome of lines 70-71;
ParseBody(packet_str, channels_part) ==
    ParseResult(packet_str, channels_part,
                IF channels_part.bound /\ channels_part.text # <<>>
                THEN ParseChannels(Split(channels_part.text, ";"), 1, <<>>)
                ELSE [raised |-> FALSE, channel_data |-> <<>>])

\* lines 69-71, content being the outcome of line 65;
ParseContent(packet_str, content) ==
    IF content.raised THEN None                 \* IndexError, line 65
    ELSE ParseBody(packet_str, ChannelsPart(content.text))

\* lines 64-65, decoded being the outcome of line 61.
ParseDecoded(decoded) ==
    IF decoded.raised THEN None                 \* UnicodeDecodeError, line 61
    ELSE ParseContent(decoded.str, BracketedContent(decoded.str))

parse_packet(packet_bytes) == ParseDecoded(Utf8Decode(packet_bytes))

(***************************************************************************)
(* The datagrams the transport delivers in the model.                      *)
(***************************************************************************)

\* A<sendVal 0=1;1=NaN>C   (two channels, one of them NaN)
A_two ==
    <<"A", "<", "s", "e", "n", "d", "V", "a", "l", " ", "0", "=", "1", ";",
      "1", "=", "N", "a", "N", ">", "C">>

\* A<sendVal 0=2.50>C   (channel 0 again, another value)
A_zero ==
    <<"A", "<", "s", "e", "n", "d", "V", "a", "l", " ", "0", "=", "2", ".",
      "5", "0", ">", "C">>

\* A<sendVal 0=x;1=7>C   (a value that is no number, then a good channel)
A_badval ==
    <<"A", "<", "s", "e", "n", "d", "V", "a", "l", " ", "0", "=", "x", ";",
      "1", "=", "7", ">", "C">>

\* A<sendVal 0=x>C   (only a value that is no number)
A_allbad ==
    <<"A", "<", "s", "e", "n", "d", "V", "a", "l", " ", "0", "=", "x", ">",
      "C">>

\* A<sendVal 0;1=7>C   (a token without '=', then a good channel)
A_noeq ==
    <<"A", "<", "s", "e", "n", "d", "V", "a", "l", " ", "0", ";", "1", "=",
      "7", ">", "C">>

\* A<sendVal 0>C   (only a token without '=')
A_allnoeq ==
    <<"A", "<", "s", "e", "n", "d", "V", "a", "l", " ", "0", ">", "C">>

\* A<sendVal 2=3   (no '>' at all)
A_nogt == <<"A", "<", "s", "e", "n", "d", "V", "a", "l", " ", "2", "=", "3">>

\* A<sendVal >C   (end marker)
A_end == <<"A", "<", "s", "e", "n", "d", "V", "a", "l", " ", ">", "C">>

\* A<sendVal>C   (end marker without the blank)
A_endbare == <<"A", "<", "s", "e", "n", "d", "V", "a", "l", ">", "C">>

\* A<sendVal    (end marker without '>')
A_endnogt == <<"A", "<", "s", "e", "n", "d", "V", "a", "l", " ">>

\* A<0=1   (no '>' and no 'sendVal')
A_nogtnomarker == <<"A", "<", "0", "=", "1">>

\* A<0=1>C   (no 'sendVal' in the bracketed content)
A_nomarker == <<"A", "<", "0", "=", "1", ">", "C">>

\* A<>C   (empty bracketed content)
A_empty == <<"A", "<", ">", "C">>

\* AsendVal 0=1>C   (no '<' at all)
A_nolt ==
    <<"A", "s", "e", "n", "d", "V", "a", "l", " ", "0", "=", "1", ">", "C">>

\* A<sendVal 0=1>\xff   (a byte that is not UTF-8)
A_badutf8 ==
    <<"A", "<", "s", "e", "n", "d", "V", "a", "l", " ", "0", "=", "1", ">",
      BadByte>>

\* A<sendVal 0=1=2;1=7>C   (a token with two '=', then a good channel)
A_twoeq ==
    <<"A", "<", "s", "e", "n", "d", "V", "a", "l", " ", "0", "=", "1", "=",
      "2", ";", "1", "=", "7", ">", "C">>

\* B<sendVal 0=9>C   (device B, channel 0)
B_one ==
    <<"B", "<", "s", "e", "n", "d", "V", "a", "l", " ", "0", "=", "9", ">",
      "C">>

\* B<sendVal >C   (device B, end marker)
B_end == <<"B", "<", "s", "e", "n", "d", "V", "a", "l", " ", ">", "C">>

Datagrams ==
    {A_two, A_zero, A_badval, A_allbad, A_noeq,
     A_allnoeq, A_nogt, A_end, A_endbare, A_endnogt,
     A_nomarker, A_empty, A_nolt, A_badutf8, A_twoeq,
     B_one, B_end, A_nogtnomarker}

(***************************************************************************)
(* The server: packet_buffer and the receive loop of start().              *)
(***************************************************************************)

\* The largest number of packets buffered for one device in the model.
MaxPending == 2

VARIABLES
    pc,             \* "recvfrom": start() is in its loop, at line 184;
                    \* "shutdown_requested", "unexpected_error": start() has
                    \* left the loop by line 199 or by line 201
    packet_buffer,  \* self.packet_buffer: serial -> dict of buffered packets
    data,           \* the datagram of the last iteration of the loop
    sink_calls,     \* the calls of save_to_database and write_to_csv made
                    \* by the last iteration, in order
    arrived,        \* history: serial -> the datagrams decoded as packets of
                    \* that device that are no end marker, in arrival
                    \* order, since the last end marker of the device
    csv_files,      \* the files of output/: filename -> the rows of the file
    today           \* the day datetime.now() is in (line 116)

\* The files are on disk, outside the server's own state.  Spec follows the
\* server and takes the answer of each sink as an input; SinkSpec follows
\* write_to_csv and the files, reading by reading.
sink_vars == <<csv_files, today>>

vars == <<pc, packet_buffer, data, sink_calls, arrived, csv_files, today>>

\* A dict with integer keys keeps its items in insertion order: a sequence
\* of [key, value] items.  d[k] = v replaces in place or appends.
Keys(d) == [i \in 1..Len(d) |-> d[i].key]

Values(d) == [i \in 1..Len(d) |-> d[i].value]

SetItem(d, k, v) ==
    IF \E i \in 1..Len(d) : d[i].key = k
    THEN [i \in 1..Len(d) |-> IF d[i].key = k THEN [key |-> k, value |-> v] ELSE d[i]]
    ELSE Append(d, [key |-> k, value |-> v])

\* Update with a fault: a key already present keeps its value.
UpdateKeepFirst(d, other) ==
    [k \in DOMAIN d \cup DOMAIN other |-> IF k \in DOMAIN d THEN d[k] ELSE other[k]]

\* dict.update(other)
Update(d, other) ==
    [k \in DOMAIN d \cup DOMAIN other |-> IF k \in DOMAIN other THEN other[k] ELSE d[k]]

\* HasPending with a fault: the end marker is processed without the test.
HasPendingAlways(serial) == TRUE

\* serial in self.packet_buffer (line 192): no entry is created by the test.
HasPending(serial) == serial \in DOMAIN packet_buffer

\* self.packet_buffer[serial] of a defaultdict(dict): a missing key reads as {}.
Pending(serial) ==
    IF serial \in DOMAIN packet_buffer THEN packet_buffer[serial] ELSE <<>>

\* Lines 155-160: the channel data of the buffered packets, combined in the
\* order of the dict's values.
RECURSIVE Combine(_, _)
Combine(packets, i) ==
    IF i = 0 THEN <<>>
    ELSE Update(Combine(packets, i - 1), packets[i].channel_data)

combined_channel_data(serial) ==
    Combine(Values(Pending(serial)), Len(Pending(serial)))

\* Lines 156-160: the raw texts of the buffered packets, in the same order.
raw_packets(serial) ==
    [i \in 1..Len(Pending(serial)) |-> Values(Pending(serial))[i].raw_packet]

\* Line 163: the call of save_to_database; ok is FALSE when sqlite3 raised
\* (caught and logged inside, lines 111-112).
save_to_database(serial, channel_data, raw, ok) ==
    [sink |-> "save_to_database", serial |-> serial,
     channel_data |-> channel_data, raw_packets |-> raw, ok |-> ok]

\* Line 166: the call of write_to_csv; ok is FALSE when the write raised
\* (caught and logged inside, lines 148-149).
write_to_csv(serial, channel_data, ok) ==
    [sink |-> "write_to_csv", serial |-> serial,
     channel_data |-> channel_data, raw_packets |-> <<>>, ok |-> ok]

\* Delete with a fault: the whole buffer is cleared.
DeleteAll(serial) == <<>>

\* Delete with a fault: the device's dict is emptied, its entry stays.
DeleteItems(serial) ==
    [s \in DOMAIN packet_buffer |-> IF s = serial THEN <<>> ELSE packet_buffer[s]]

\* Line 169: del self.packet_buffer[serial]
Delete(serial) == [s \in DOMAIN packet_buffer \ {serial} |-> packet_buffer[s]]

\* Store with a fault: the key is always 0, the new packet replaces the old.
StoreAtZero(serial, parsed) ==
    [s \in DOMAIN packet_buffer \cup {serial} |->
        IF s = serial
        THEN SetItem(Pending(serial), 0, parsed)
        ELSE packet_buffer[s]]

\* Store with a fault: the key is len(...) + 1.
StoreOneBased(serial, parsed) ==
    [s \in DOMAIN packet_buffer \cup {serial} |->
        IF s = serial
        THEN SetItem(Pending(serial), Len(Pending(serial)) + 1, parsed)
        ELSE packet_buffer[s]]

\* Line 196: self.packet_buffer[serial][len(self.packet_buffer[serial])] = parsed
Store(serial, parsed) ==
    [s \in DOMAIN packet_buffer \cup {serial} |->
        IF s = serial
        THEN SetItem(Pending(serial), Len(Pending(serial)), parsed)
        ELSE packet_buffer[s]]

\* process_complete_dataset with a fault: save_to_database has no try of
\* its own, so its error skips lines 166-169 and reaches start().
process_complete_dataset_raising(serial) ==
    \E db_ok \in BOOLEAN, csv_ok \in BOOLEAN :
       IF db_ok
       THEN /\ sink_calls' =
                 << save_to_database(serial, combined_channel_data(serial),
                                     raw_packets(serial), db_ok),
                    write_to_csv(serial, combined_channel_data(serial), csv_ok) >>
            /\ packet_buffer' = Delete(serial)
            /\ pc' = "recvfrom"
       ELSE /\ sink_calls' =
                 << save_to_database(serial, combined_channel_data(serial),
                                     raw_packets(serial), db_ok) >>
            /\ packet_buffer' = packet_buffer
            /\ pc' = "unexpected_error"

\* process_complete_dataset with a fault: the packets are kept for a later
\* resend when a sink failed.
process_complete_dataset_keeping(serial) ==
    \E db_ok \in BOOLEAN, csv_ok \in BOOLEAN :
    /\ sink_calls' =
         << save_to_database(serial, combined_channel_data(serial),
                             raw_packets(serial), db_ok),
            write_to_csv(serial, combined_channel_data(serial), csv_ok) >>
    /\ packet_buffer' = IF db_ok /\ csv_ok THEN Delete(serial) ELSE packet_buffer
    /\ pc' = "recvfrom"

\* process_complete_dataset(serial), lines 151-172; db_ok and csv_ok are the
\* outcomes of the two sinks.  Each sink catches its own error (lines 111
\* and 148), so both are called, line 169 runs and the call returns to the
\* loop.
process_complete_dataset(serial) ==
    \E db_ok \in BOOLEAN, csv_ok \in BOOLEAN :
    /\ sink_calls' =
         << save_to_database(serial, combined_channel_data(serial),
                             raw_packets(serial), db_ok),
            write_to_csv(serial, combined_channel_data(serial), csv_ok) >>
    /\ packet_buffer' = Delete(serial)
    /\ pc' = "recvfrom"

\* The history of arrivals after a datagram decoded as parsed.
Arrive(parsed, packet_bytes) ==
    IF parsed = None THEN arrived
    ELSE IF parsed.is_end_marker
    THEN [s \in DOMAIN arrived \ {parsed.serial} |-> arrived[s]]
    ELSE [s \in DOMAIN arrived \cup {parsed.serial} |->
            IF s = parsed.serial
            THEN (IF s \in DOMAIN arrived THEN arrived[s] ELSE <<>>) \o <<packet_bytes>>
            ELSE arrived[s]]

\* Line 185: parsed = self.parse_packet(data), for each datagram of the model.
Parsed == [packet_bytes \in Datagrams |-> parse_packet(packet_bytes)]

\* Lines 187-196 for the datagram packet_bytes, decoded as parsed.
Dispatch(packet_bytes, parsed) ==
    /\ pc = "recvfrom"
    /\ (parsed # None /\ ~parsed.is_end_marker)
          => Len(Pending(parsed.serial)) < MaxPending
    /\ data' = packet_bytes
    /\ arrived' = Arrive(parsed, packet_bytes)
    /\ UNCHANGED sink_vars
    /\ IF parsed # None
       THEN IF parsed.is_end_marker
            THEN IF HasPending(parsed.serial)
                 THEN process_complete_dataset(parsed.serial)
                 ELSE /\ sink_calls' = <<>>
                      /\ packet_buffer' = packet_buffer
                      /\ pc' = "recvfrom"
            ELSE /\ sink_calls' = <<>>
                 /\ packet_buffer' = Store(parsed.serial, parsed)
                 /\ pc' = "recvfrom"
       ELSE /\ sink_calls' = <<>>
            /\ packet_buffer' = packet_buffer
            /\ pc' = "recvfrom"

\* One iteration of the loop of start(), lines 184-196, for the datagram
\* packet_bytes.
LoopIteration(packet_bytes) == Dispatch(packet_bytes, Parsed[packet_bytes])

\* Shutdown with a fault: the packets of a pending device are flushed to the
\* sinks on the way out.
ShutdownFlushing ==
    /\ pc = "recvfrom"
    /\ pc' = "shutdown_requested"
    /\ IF packet_buffer = <<>>
       THEN UNCHANGED <<packet_buffer, sink_calls>>
       ELSE \E serial \in DOMAIN packet_buffer :
              /\ sink_calls' =
                   << save_to_database(serial, combined_channel_data(serial),
                                       raw_packets(serial), TRUE),
                      write_to_csv(serial, combined_channel_data(serial), TRUE) >>
              /\ packet_buffer' = Delete(serial)
    /\ UNCHANGED <<data, arrived, sink_vars>>

\* Lines 198-199: KeyboardInterrupt while the loop waits in recvfrom.
Shutdown ==
    /\ pc = "recvfrom"
    /\ pc' = "shutdown_requested"
    /\ UNCHANGED <<packet_buffer, data, sink_calls, arrived, sink_vars>>

\* Lines 200-201: recvfrom raises (a socket error); start() logs it and
\* leaves the loop.
RecvError ==
    /\ pc = "recvfrom"
    /\ pc' = "unexpected_error"
    /\ UNCHANGED <<packet_buffer, data, sink_calls, arrived, sink_vars>>

Init ==
    /\ pc = "recvfrom"
    /\ packet_buffer = <<>>
    /\ data = <<>>
    /\ sink_calls = <<>>
    /\ arrived = <<>>
    /\ csv_files = <<>>
    /\ today = 1

Next ==
    \/ \E packet_bytes \in Datagrams : LoopIteration(packet_bytes)
    \/ Shutdown
    \/ RecvError

Spec == Init /\ [][Next]_vars

(***************************************************************************)
(* write_to_csv and the files of output/ (lines 114-149).                  *)
(*                                                                         *)
(* A file is the sequence of its rows, a row the sequence of its cells.    *)
(* "Timestamp" is [header |-> "Timestamp"], f'Channel_{ch}' is             *)
(* [header |-> "Channel_", ch |-> ch], the timestamp of a data row is      *)
(* [timestamp |-> day], a value is the float or 'NaN'.  A file is named    *)
(* by the serial and the day of its name (line 118).                       *)
(***************************************************************************)

\* A<sendVal 01=1>C   (a channel number with a leading zero)
A_leadzero ==
    <<"A", "<", "s", "e", "n", "d", "V", "a", "l", " ", "0", "1", "=", "1",
      ">", "C">>

\* A<sendVal x=1>C   (a channel number that is no number)
A_letter ==
    <<"A", "<", "s", "e", "n", "d", "V", "a", "l", " ", "x", "=", "1", ">", "C">>

\* The datagrams whose readings are written in SinkSpec.
SinkDatagrams == {A_two, A_zero, A_leadzero, A_letter, B_one}

\* Lines 153-166: the reading process_complete_dataset hands to write_to_csv
\* when the buffer of the device holds the packet of one datagram.
ReadingOf(parsed) ==
    [serial |-> parsed.serial, channel_data |-> Combine(<<parsed>>, 1)]

Readings == {ReadingOf(parse_packet(d)) : d \in SinkDatagrams}

\* The last day of the model and the largest number of data rows, all files
\* together.
MaxDay == 2
MaxRows == 2

\* int(k): surrounding whitespace and one sign are accepted; [raised |->
\* TRUE] is ValueError.  Digit-group underscores are not modelled.
IntOfSigned(signed) ==
    IF signed[2] # <<>> /\ IsDigits(signed[2])
    THEN [raised |-> FALSE, value |-> signed[1] * DecimalValue(signed[2])]
    ELSE [raised |-> TRUE]

int(k) == IntOfSigned(Signed(Strip(k)))

DigitChar(n) ==
    CASE n = 0 -> "0" [] n = 1 -> "1" [] n = 2 -> "2" [] n = 3 -> "3"
      [] n = 4 -> "4" [] n = 5 -> "5" [] n = 6 -> "6" [] n = 7 -> "7"
      [] n = 8 -> "8" [] n = 9 -> "9"

RECURSIVE Digits(_)
Digits(n) ==
    IF n < 10 THEN <<DigitChar(n)>>
    ELSE Append(Digits(n \div 10), DigitChar(n % 10))

\* str(ch) of an integer
str(ch) == IF ch < 0 THEN <<"-">> \o Digits(-ch) ELSE Digits(ch)

\* The generator int(k) for k in channel_data.keys() raises (lines 130, 140).
IntRaises(channel_data) == \E k \in DOMAIN channel_data : int(k).raised

\* sorted(int(k) for k in keys), lines 130 and 140; two keys of the same
\* number give the number twice.
RECURSIVE sorted(_)
sorted(keys) ==
    IF keys = {} THEN <<>>
    ELSE LET first == CHOOSE k \in keys :
                         \A j \in keys : int(k).value <= int(j).value
         IN  <<int(first).value>> \o sorted(keys \ {first})

\* Lines 131-132: headers
Headers(channels) ==
    <<[header |-> "Timestamp"]>>
        \o [i \in 1..Len(channels) |-> [header |-> "Channel_", ch |-> channels[i]]]

\* Line 141: channel_data[str(ch)] raises KeyError for some ch.
LookupRaises(channel_data, channels) ==
    \E i \in 1..Len(channels) : str(channels[i]) \notin DOMAIN channel_data

\* Line 142: value if value is not None else 'NaN'
Cell(value) == IF value = None THEN [text |-> NaN] ELSE value

\* Lines 137-142: row_data
RowData(channel_data, channels, timestamp) ==
    <<[timestamp |-> timestamp]>>
        \o [i \in 1..Len(channels) |-> Cell(channel_data[str(channels[i])])]

\* Lines 128-133: the header row goes to a file that did not exist at
\* line 122.
WithHeader(rows, file_exists, channels) ==
    IF file_exists THEN rows ELSE Append(rows, Headers(channels))

\* Lines 136-144: the data row, unless line 141 raises; the rows written
\* before stay in the file, which the with statement closes.
WithRow(rows, channel_data, channels, timestamp) ==
    IF LookupRaises(channel_data, channels) THEN rows
    ELSE Append(rows, RowData(channel_data, channels, timestamp))

\* Lines 124-144: the rows of the file after the with block.  rows is what
\* open(filename, 'a') gives: the rows of the existing file, or a new empty
\* file.  When int(k) raises nothing is written, and the file is there.
Written(rows, file_exists, channel_data, timestamp) ==
    IF IntRaises(channel_data) THEN rows
    ELSE WithRow(WithHeader(rows, file_exists, sorted(DOMAIN channel_data)),
                 channel_data, sorted(DOMAIN channel_data), timestamp)

\* Line 118: filename
Filename(serial, date_str) == [serial |-> serial, date_str |-> date_str]

\* open(filename, 'a'), line 124
Open(files, filename) ==
    IF filename \in DOMAIN files THEN files[filename] ELSE <<>>

\* The files after write_to_csv(serial, channel_data) on day date_str;
\* open_ok is FALSE when open raises (line 124): nothing is written then.
CsvFilesAfter(files, serial, channel_data, date_str, open_ok) ==
    IF ~open_ok THEN files
    ELSE [f \in DOMAIN files \cup {Filename(serial, date_str)} |->
            IF f = Filename(serial, date_str)
            THEN Written(Open(files, f), f \in DOMAIN files, channel_data, date_str)
            ELSE files[f]]

\* The number of data rows of a file, and of all files.
IsHeaderRow(row) == row[1] = [header |-> "Timestamp"]

DataRows(rows) == Cardinality({i \in 1..Len(rows) : ~IsHeaderRow(rows[i])})

RECURSIVE RowCount(_, _)
RowCount(files, names) ==
    IF names = {} THEN 0
    ELSE LET f == CHOOSE f \in names : TRUE
         IN  DataRows(files[f]) + RowCount(files, names \ {f})

\* One reading is handed to write_to_csv.
WriteReading(reading, open_ok) ==
    /\ RowCount(csv_files, DOMAIN csv_files) < MaxRows
    /\ csv_files' = CsvFilesAfter(csv_files, reading.serial,
                                  reading.channel_data, today, open_ok)
    /\ UNCHANGED <<pc, packet_buffer, data, sink_calls, arrived, today>>

\* Midnight passes: datetime.now() is in the next day.
NextDay ==
    /\ today < MaxDay
    /\ today' = today + 1
    /\ UNCHANGED <<pc, packet_buffer, data, sink_calls, arrived, csv_files>>

SinkNext ==
    \/ \E reading \in Readings, open_ok \in BOOLEAN : WriteReading(reading, open_ok)
    \/ NextDay

SinkSpec == Init /\ [][SinkNext]_vars

(***************************************************************************)
(* Properties.                                                             *)
(***************************************************************************)

\* The decoding of the datagram of the last iteration (None before the first).
LastParsed == IF data \in Datagrams THEN Parsed[data] ELSE None

\* This step is an iteration of the loop (Shutdown and RecvError change pc).
Iterated == pc = "recvfrom" /\ pc' = "recvfrom"

\* The packets the datagrams of a history decode to.
Fragments(history) == [i \in 1..Len(history) |-> Parsed[history[i]]]

\* Key-wise last-write-wins merge: each channel has the value of the last
\* fragment that carries it.
LastWriteWins(frags) ==
    LET carries(k) == {i \in 1..Len(frags) : k \in DOMAIN frags[i].channel_data}
        last(k) == CHOOSE i \in carries(k) : \A j \in carries(k) : j <= i
    IN  [k \in UNION {DOMAIN frags[i].channel_data : i \in 1..Len(frags)} |->
            frags[last(k)].channel_data[k]]

\* C1: when an end marker of device D is processed after one or more
\* packets of D that are no end marker, each sink is called exactly once,
\* for D, with the last-write-wins merge of those packets' channel data in
\* arrival order; the raw packets handed over are exactly their raw texts
\* in arrival order, without the end marker.
C1_ReadingIsMergeInArrivalOrder ==
    [][ (/\ Iterated
         /\ LastParsed' # None
         /\ LastParsed'.is_end_marker
         /\ LastParsed'.serial \in DOMAIN arrived)
        => LET D == LastParsed'.serial
               frags == Fragments(arrived[D])
           IN  /\ Len(sink_calls') = 2
               /\ sink_calls'[1].sink = "save_to_database"
               /\ sink_calls'[2].sink = "write_to_csv"
               /\ \A i \in 1..2 :
                    /\ sink_calls'[i].serial = D
                    /\ sink_calls'[i].channel_data = LastWriteWins(frags)
               /\ sink_calls'[1].raw_packets =
                    [i \in 1..Len(frags) |-> frags[i].raw_packet]
               /\ data' \notin {sink_calls'[1].raw_packets[i] :
                                  i \in 1..Len(sink_calls'[1].raw_packets)}
      ]_vars

\* C1 witness: a reading of two packets that both carry channel 0 has been
\* handed over, with the later value.
C1_Witness ==
    /\ Len(sink_calls) = 2
    /\ sink_calls[1].raw_packets = <<A_two, A_zero>>
    /\ sink_calls[1].channel_data[<<"0">>] = Float("finite", 25, -1)
    /\ sink_calls[1].channel_data[<<"1">>] = None

\* Every buffered packet and every raw packet of a reading is of the device
\* it is filed under.
OwnPacketsOnly ==
    /\ \A s \in DOMAIN packet_buffer : \A i \in 1..Len(packet_buffer[s]) :
          packet_buffer[s][i].value.serial = s
    /\ \A c \in 1..Len(sink_calls) : \A i \in 1..Len(sink_calls[c].raw_packets) :
          /\ sink_calls[c].raw_packets[i] \in Datagrams
          /\ Parsed[sink_calls[c].raw_packets[i]].serial = sink_calls[c].serial

\* C2: a packet or end marker of one device leaves the buffered packets of
\* every other device as they are, and a reading of device D holds only
\* packets whose decoded serial is D.
C2_BufferIsolation ==
    [][ (Iterated /\ LastParsed' # None)
        => /\ \A s \in DOMAIN packet_buffer \ {LastParsed'.serial} :
                /\ s \in DOMAIN packet_buffer'
                /\ packet_buffer'[s] = packet_buffer[s]
           /\ DOMAIN packet_buffer' \ DOMAIN packet_buffer \subseteq {LastParsed'.serial}
           /\ OwnPacketsOnly'
      ]_vars

\* C2 witness: a reading of device A was handed over while device B has
\* packets buffered.
C2_Witness ==
    /\ Len(sink_calls) = 2
    /\ sink_calls[1].serial = <<"A">>
    /\ Len(sink_calls[1].raw_packets) = 2
    /\ <<"B">> \in DOMAIN packet_buffer
    /\ Len(packet_buffer[<<"B">>]) = 2

\* C3: an end marker of a device of which no packet arrived since its last
\* end marker changes nothing in the buffer, creates no entry for the
\* device and calls no sink.
C3_EndMarkerWithoutPending ==
    [][ (/\ Iterated
         /\ LastParsed' # None
         /\ LastParsed'.is_end_marker
         /\ LastParsed'.serial \notin DOMAIN arrived)
        => /\ packet_buffer' = packet_buffer
           /\ LastParsed'.serial \notin DOMAIN packet_buffer'
           /\ sink_calls' = <<>>
      ]_vars

\* C3 witness: the last datagram was an end marker of device A, nothing was
\* handed over, A has no entry and B's packets are still buffered.
C3_Witness ==
    /\ data = A_end
    /\ sink_calls = <<>>
    /\ <<"A">> \notin DOMAIN packet_buffer
    /\ <<"B">> \in DOMAIN packet_buffer

\* C4: after an end marker of a device with buffered packets the device has
\* no entry in the buffer, whatever the sinks answered; the first packet of
\* a device after its end marker is alone in a new entry.
C4_PendingDestroyedAndRecreated ==
    [][ (Iterated /\ LastParsed' # None)
        => LET D == LastParsed'.serial
           IN  /\ (LastParsed'.is_end_marker /\ D \in DOMAIN arrived)
                    => D \notin DOMAIN packet_buffer'
               /\ (~LastParsed'.is_end_marker /\ D \notin DOMAIN arrived)
                    => /\ D \in DOMAIN packet_buffer'
                       /\ Values(packet_buffer'[D]) = <<LastParsed'>>
      ]_vars

\* C4 witness: both sinks failed for a reading of device A and A has no
\* entry in the buffer.
C4_Witness ==
    /\ Len(sink_calls) = 2
    /\ sink_calls[1].serial = <<"A">>
    /\ ~sink_calls[1].ok
    /\ ~sink_calls[2].ok
    /\ <<"A">> \notin DOMAIN packet_buffer

\* The last packet buffered for the device of the last datagram is that
\* datagram's packet.
LastIsBuffered ==
    /\ LastParsed.serial \in DOMAIN packet_buffer
    /\ packet_buffer[LastParsed.serial] # <<>>
    /\ packet_buffer[LastParsed.serial][Len(packet_buffer[LastParsed.serial])].value
         = LastParsed

\* The text between the first '<' and the next '>' (or '<', or the end).
Bracketed(d) == Split(Split(d, "<")[2], ">")[1]

\* The channel-assignment body: the bracketed text without the marker, trimmed.
BodyTable ==
    [d \in {x \in Datagrams : Contains(x, <<"<">>)} |->
        Strip(Replace(Bracketed(d), sendVal, <<>>))]

Framed(d) == d \in DOMAIN BodyTable /\ ~Contains(d, <<BadByte>>)

\* C5 as stated: a decoded packet has no channel exactly when it is an end
\* marker, and no packet without a channel is ever buffered.
C5_EmptyChannelsIffEndMarker ==
    /\ LastParsed # None
         => (LastParsed.channel_data = <<>> <=> LastParsed.is_end_marker)
    /\ \A s \in DOMAIN packet_buffer : \A i \in 1..Len(packet_buffer[s]) :
          packet_buffer[s][i].value.channel_data # <<>>

\* C5 amended: a decoded packet is an end marker exactly when its body is
\* empty after the marker is removed and the rest trimmed.  An end marker
\* has no channel and is never buffered; a packet that is no end marker is
\* buffered, also when all its tokens were skipped or dropped and it has no
\* channel.
C5_EndMarkerIffEmptyBody ==
    /\ LastParsed # None
         => /\ LastParsed.is_end_marker <=> BodyTable[data] = <<>>
            /\ LastParsed.is_end_marker => LastParsed.channel_data = <<>>
            /\ ~LastParsed.is_end_marker => LastIsBuffered
    /\ \A s \in DOMAIN packet_buffer : \A i \in 1..Len(packet_buffer[s]) :
          ~packet_buffer[s][i].value.is_end_marker

\* C5 witness: a packet whose only value is no number has no channel, is no
\* end marker and is buffered.
C5_Witness ==
    /\ data = A_allbad
    /\ LastParsed.channel_data = <<>>
    /\ ~LastParsed.is_end_marker
    /\ LastIsBuffered

\* C6: a framed datagram whose bracketed text does not contain 'sendVal' is
\* decoded, its whole bracketed text being the body: it is an end marker
\* when that body is empty and a buffered packet otherwise.
C6_NoMarkerDecodes ==
    (Framed(data) /\ ~Contains(Bracketed(data), sendVal))
        => /\ LastParsed # None
           /\ LastParsed.is_end_marker <=> BodyTable[data] = <<>>
           /\ ~LastParsed.is_end_marker => LastIsBuffered

\* C7 as stated: a datagram with '<' and without '>' is not decoded.
C7_NoClosingIsFailure ==
    (Framed(data) /\ ~Contains(data, <<">">>)) => LastParsed = None

\* Each datagram of the model with a '>' added at its end, decoded.
ParsedClosed == [d \in Datagrams |-> parse_packet(d \o <<">">>)]

\* C7 amended: a datagram with '<' and without '>' is decoded as if a '>'
\* closed it at its end: it fails exactly when the closed datagram fails,
\* and otherwise gives the same serial, channels and end-marker flag, and is
\* buffered when it is no end marker.
C7_NoClosingDecodesAsClosed ==
    (Framed(data) /\ ~Contains(data, <<">">>))
        => /\ LastParsed = None <=> ParsedClosed[data] = None
           /\ LastParsed # None
                => /\ LastParsed.serial = ParsedClosed[data].serial
                   /\ LastParsed.channel_data = ParsedClosed[data].channel_data
                   /\ LastParsed.is_end_marker = ParsedClosed[data].is_end_marker
                   /\ LastParsed.raw_packet = data
                   /\ ~LastParsed.is_end_marker => LastIsBuffered

\* C7 witness: the packet of a datagram without '>' is buffered.
C7_Witness ==
    /\ data = A_nogt
    /\ LastParsed.channel_data = [k \in {<<"2">>} |-> Float("finite", 3, 0)]
    /\ LastIsBuffered

\* A datagram that is not UTF-8 or has no '<'.
Undecodable(d) == Contains(d, <<BadByte>>) \/ ~Contains(d, <<"<">>)

UndecodableDatagrams == {d \in Datagrams : Undecodable(d)}

\* C8: a datagram that is not UTF-8 or has no '<' gives no packet, leaves
\* the buffer (and so the packets that arrived before it) as it is, calls no
\* sink, and the loop stays at recvfrom.
C8_DecodeFailureIsDropped ==
    [][ \A d \in UndecodableDatagrams :
          LoopIteration(d)
            => /\ Parsed[d] = None
               /\ packet_buffer' = packet_buffer
               /\ arrived' = arrived
               /\ sink_calls' = <<>>
               /\ pc' = "recvfrom"
      ]_vars

\* C8 witness: the last datagram was not UTF-8, the packets buffered before
\* it are still there and the loop is at recvfrom.
C8_Witness ==
    /\ data = A_badutf8
    /\ pc = "recvfrom"
    /\ sink_calls = <<>>
    /\ <<"A">> \in DOMAIN packet_buffer
    /\ Values(packet_buffer[<<"A">>]) = Fragments(<<A_two, A_zero>>)
    /\ arrived[<<"A">>] = <<A_two, A_zero>>

\* The assignment tokens of a body: the tokens with '=', each split at its
\* first '=' into <<channel index, value text>>.
Assignment(token) ==
    LET t == Strip(token)
        i == Find(t, <<"=">>)
    IN  <<SubSeq(t, 1, i - 1), SubSeq(t, i + 1, Len(t))>>

RECURSIVE ChannelsOf(_, _)
ChannelsOf(tokens, i) ==
    IF i = 0 THEN <<>>
    ELSE LET before == ChannelsOf(tokens, i - 1)
         IN  IF ~Contains(tokens[i], <<"=">>) THEN before
             ELSE ParseValue(before, Assignment(tokens[i])[1], Assignment(tokens[i])[2])

TokenTable == [d \in DOMAIN BodyTable |-> Split(BodyTable[d], ";")]

ChannelsTable == [d \in DOMAIN BodyTable |-> ChannelsOf(TokenTable[d], Len(TokenTable[d]))]

\* The value text of the token is neither NaN nor a number.
BadValue(token) ==
    /\ Contains(token, <<"=">>)
    /\ Strip(Assignment(token)[2]) # NaN
    /\ ParseFloat(Assignment(token)[2]).raised

BadValueTable ==
    [d \in DOMAIN BodyTable |-> \E i \in 1..Len(TokenTable[d]) : BadValue(TokenTable[d][i])]

\* The token has no '=' or more than one.
OddToken(token) == token # <<>> /\ Len(Split(token, "=")) # 2

OddTokenTable ==
    [d \in DOMAIN BodyTable |-> \E i \in 1..Len(TokenTable[d]) : OddToken(TokenTable[d][i])]

\* C9: a value text that is neither NaN nor a number drops its channel
\* only: the datagram is decoded, its other channels have their values
\* (NaN as absent) and the packet is buffered.
C9_BadValueDropsOnlyItsChannel ==
    (Framed(data) /\ Contains(Bracketed(data), sendVal) /\ BadValueTable[data])
        => /\ LastParsed # None
           /\ LastParsed.channel_data = ChannelsTable[data]
           /\ LastIsBuffered

\* C10: a token without '=' is skipped and a token with more than one '='
\* gives the one pair split at its first '='; the datagram is decoded and
\* its other tokens give their channels.
C10_SplitAtFirstEquals ==
    (Framed(data) /\ Contains(Bracketed(data), sendVal) /\ OddTokenTable[data])
        => /\ LastParsed # None
           /\ LastParsed.channel_data = ChannelsTable[data]

\* ---------------------------------------------------------------------
\* The loop, its errors and its end (start, lines 182-204)
\* ---------------------------------------------------------------------

\* C11: the loop stops only on a shutdown request; after any error, an
\* error raised by recvfrom included, the loop is still running and reads
\* the next datagram.
C11_OnlyShutdownStopsLoop ==
    [][ pc = "recvfrom" => pc' \in {"recvfrom", "shutdown_requested"} ]_vars

\* C12: delivery is at most once.  Sinks are called only when an end marker
\* of a device with buffered packets is processed; each sink is then called
\* exactly once, with the packets that arrived since the device's previous
\* reading and no others; and whatever the sinks answered, none of these
\* packets is kept in the buffer, so no later reading holds them again.
C12_AtMostOnceDelivery ==
    [][ (Iterated /\ sink_calls' # <<>>)
        => /\ LastParsed' # None
           /\ LastParsed'.is_end_marker
           /\ LastParsed'.serial \in DOMAIN arrived
           /\ Len(sink_calls') = 2
           /\ sink_calls'[1].sink = "save_to_database"
           /\ sink_calls'[2].sink = "write_to_csv"
           /\ sink_calls'[1].raw_packets = arrived[LastParsed'.serial]
           /\ LastParsed'.serial \notin DOMAIN packet_buffer'
           /\ LastParsed'.serial \notin DOMAIN arrived'
      ]_vars

\* C12 witness: the CSV write of a reading of device A failed, and A has no
\* entry in the buffer.
C12_Witness ==
    /\ Len(sink_calls) = 2
    /\ sink_calls[2].serial = <<"A">>
    /\ sink_calls[1].ok
    /\ ~sink_calls[2].ok
    /\ <<"A">> \notin DOMAIN packet_buffer
    /\ pc = "recvfrom"

\* The end markers of the model's datagrams.
EndMarkers ==
    {d \in Datagrams : Parsed[d] # None /\ Parsed[d].is_end_marker}

\* C13: a sink failure never reaches the loop.  When an end marker of a
\* device with buffered packets is processed, then for every pair of
\* answers of the two sinks both sinks were called, write_to_csv after
\* save_to_database also when save_to_database failed, and the loop is at
\* recvfrom again.
C13_SinkFailureNeverPropagates ==
    [][ \A d \in EndMarkers :
          (LoopIteration(d) /\ Parsed[d].serial \in DOMAIN packet_buffer)
          => /\ Len(sink_calls') = 2
             /\ sink_calls'[1].sink = "save_to_database"
             /\ sink_calls'[2].sink = "write_to_csv"
             /\ sink_calls'[2].serial = Parsed[d].serial
             /\ pc' = "recvfrom"
      ]_vars

\* C13 witness: save_to_database failed, write_to_csv was called after it
\* and succeeded, and the loop is at recvfrom.
C13_Witness ==
    /\ Len(sink_calls) = 2
    /\ sink_calls[1].sink = "save_to_database"
    /\ ~sink_calls[1].ok
    /\ sink_calls[2].sink = "write_to_csv"
    /\ sink_calls[2].ok
    /\ pc = "recvfrom"

\* a is an initial part of b.
IsPrefix(a, b) ==
    /\ Len(a) <= Len(b)
    /\ \A i \in 1..Len(a) : a[i] = b[i]

\* C14: a device with buffered packets keeps them, in the same order and
\* under the same keys, through every step that is not the processing of
\* an end marker of that device: a datagram that fails to decode, a packet
\* or end marker of another device and a packet of its own leave them in
\* place, and a new packet goes to the end.
C14_PendingUntilOwnEndMarker ==
    [][ \A s \in DOMAIN packet_buffer :
          \/ /\ Iterated
             /\ LastParsed' # None
             /\ LastParsed'.is_end_marker
             /\ LastParsed'.serial = s
          \/ /\ s \in DOMAIN packet_buffer'
             /\ IsPrefix(packet_buffer[s], packet_buffer'[s])
             /\ Len(packet_buffer'[s]) <= Len(packet_buffer[s]) + 1
      ]_vars

\* C14 witness: device A has two packets buffered, in arrival order, after
\* a datagram that failed to decode.
C14_Witness ==
    /\ data = A_badutf8
    /\ <<"A">> \in DOMAIN packet_buffer
    /\ Len(packet_buffer[<<"A">>]) = 2
    /\ packet_buffer[<<"A">>][1].value.raw_packet = A_two
    /\ packet_buffer[<<"A">>][2].value.raw_packet = A_zero

\* C15: the step of a shutdown request calls no sink and leaves the buffer
\* as it is, and no step follows it: no datagram is read and no reading is
\* built from the packets still buffered.
C15_ShutdownAbandonsPending ==
    [][ /\ (pc = "recvfrom" /\ pc' = "shutdown_requested")
            => /\ packet_buffer' = packet_buffer
               /\ sink_calls' = sink_calls
               /\ data' = data
        /\ pc # "shutdown_requested"
      ]_vars

\* C15 witness: the server was shut down while device A had two packets
\* buffered; no sink was called.
C15_Witness ==
    /\ pc = "shutdown_requested"
    /\ <<"A">> \in DOMAIN packet_buffer
    /\ Len(packet_buffer[<<"A">>]) = 2
    /\ sink_calls = <<>>

\* C18: every device in the buffer has at least one packet buffered, and
\* every reading handed to save_to_database has at least one raw packet.
C18_NoEmptyPending ==
    /\ \A s \in DOMAIN packet_buffer : Len(packet_buffer[s]) >= 1
    /\ \A c \in 1..Len(sink_calls) :
          sink_calls[c].sink = "save_to_database"
              => Len(sink_calls[c].raw_packets) >= 1

\* C18 witness: an end marker of device B arrived while B had nothing
\* buffered; B has no entry and device A still has its one packet.
C18_Witness ==
    /\ data = B_end
    /\ sink_calls = <<>>
    /\ <<"B">> \notin DOMAIN packet_buffer
    /\ <<"A">> \in DOMAIN packet_buffer
    /\ Len(packet_buffer[<<"A">>]) = 1

\* C20: the keys of the packets buffered for a device are 0, 1, ..., n-1
\* in this order, and the packets are the device's packets since its last
\* end marker in the order they arrived.
C20_KeysAreArrivalIndices ==
    /\ DOMAIN packet_buffer = DOMAIN arrived
    /\ \A s \in DOMAIN packet_buffer :
          /\ Keys(packet_buffer[s]) = [i \in 1..Len(packet_buffer[s]) |-> i - 1]
          /\ [i \in 1..Len(packet_buffer[s]) |-> packet_buffer[s][i].value.raw_packet]
                = arrived[s]

\* C20 witness: device A has two packets under the keys 0 and 1 while a
\* reading of device B has just been handed over.
C20_Witness ==
    /\ <<"A">> \in DOMAIN packet_buffer
    /\ Keys(packet_buffer[<<"A">>]) = <<0, 1>>
    /\ Len(sink_calls) = 2
    /\ sink_calls[1].serial = <<"B">>

\* ---------------------------------------------------------------------
\* The CSV files (write_to_csv, lines 114-149), under SinkSpec
\* ---------------------------------------------------------------------

\* The file write_to_csv writes the reading to today.
FileOf(files, reading) == Open(files, Filename(reading.serial, today))

\* C16: in every file that has a row, the first row is the header row and
\* no later row is one, also after a write to the file that failed.
C16_HeaderOnceAndFirst ==
    \A f \in DOMAIN csv_files :
        csv_files[f] # <<>>
            => /\ IsHeaderRow(csv_files[f][1])
               /\ \A i \in 2..Len(csv_files[f]) : ~IsHeaderRow(csv_files[f][i])

\* C17: every reading handed to write_to_csv, whose file could be opened,
\* adds exactly one data row to the file of its device and day.
C17_EveryReadingAddsOneRow ==
    [][ \A reading \in Readings :
          WriteReading(reading, TRUE)
          => DataRows(FileOf(csv_files', reading))
                = DataRows(FileOf(csv_files, reading)) + 1
      ]_vars

\* C19: a data row written to a file that begins with a header row has as
\* many cells as the header row, and under each Channel_n of the header
\* stands the reading's value of channel n.
C19_RowsAlignedWithHeader ==
    [][ \A reading \in Readings :
          (/\ WriteReading(reading, TRUE)
           /\ DataRows(FileOf(csv_files', reading))
                 = DataRows(FileOf(csv_files, reading)) + 1
           /\ IsHeaderRow(FileOf(csv_files', reading)[1]))
          => LET rows == FileOf(csv_files', reading)
                 header == rows[1]
                 row == rows[Len(rows)]
             IN  /\ Len(row) = Len(header)
                 /\ \A i \in 2..Len(header) :
                      /\ str(header[i].ch) \in DOMAIN reading.channel_data
                      /\ row[i] = Cell(reading.channel_data[str(header[i].ch)])
      ]_vars

====
